---- MODULE Spec2Model ----
(***************************************************************************)
(* Track section analysis ("who was fastest where") of f1-insights:        *)
(* src/Australian GP/Qualifying/track_breakdown/main.py.                   *)
(*                                                                         *)
(* The script divides the track polyline (track_x, track_y) into segments  *)
(* of about track_length / num_segments each, records one midpoint per     *)
(* segment, then walks all_drivers and keeps, per segment, the driver      *)
(* whose telemetry sample nearest to the midpoint has the highest speed,   *)
(* and finally colours the segments and exports one row per segment.       *)
(*                                                                         *)
(* Arithmetic.  The script works in float64.  The inputs of the model are  *)
(* integer coordinates whose consecutive distances are integers (ExactTrack)*)
(* so that every length the segmentation compares is exact; the comparison *)
(* with track_length / num_segments is done by cross-multiplication.       *)
(* The nearest telemetry sample is found on squared distances: np.sqrt is  *)
(* strictly increasing on the integers of the model, so the argmin is the  *)
(* same index.                                                              *)
(***************************************************************************)
EXTENDS Integers, Sequences, FiniteSets, TLC

(* ------------------------------ bounds --------------------------------- *)

\* longest track polyline of the segmentation inputs
MaxPoints == 4

\* largest positive target segment count (main.py sets 80)
MaxSegments == 3

\* most telemetry samples of one driver's fastest lap
MaxSamples == 2

\* most rows of a telemetry table given to a function of telemetry_utils
MaxRows == 2

\* most rows of circuit.corners
MaxCorners == 2

\* most rows of session.results
MaxResults == 2

\* most rows of session.laps
MaxLaps == 2

(* --------------------------- input domains ----------------------------- *)

\* coordinates of the segmentation inputs: every pair of points is at an
\* integer distance (30, 40, 50 or 0)
TrackXs == {0, 30}
TrackYs == {0, 40}

\* target counts: the positive ones, and the degenerate 0 and -1
SegmentCounts == {0 - 1, 0} \cup (1 .. MaxSegments)

\* the straight track of the attribution inputs
ExampleTrackX == <<0, 10, 20, 30, 40>>
ExampleTrackY == <<0, 0, 0, 0, 0>>
ExampleCounts == {1, 2}

Drivers == {"A", "B"}
None == "None"

\* positions a lap passes, in the order it passes them, and the speeds read
SamplePath == << <<10, 0>>, <<20, 30>>, <<30, 0>> >>
Speeds == {0, 200, 250}

VARIABLES
    track_x, track_y,          \* main.py:31/34  the track polyline
    num_segments,              \* main.py:41
    all_drivers,               \* main.py:21     processing order
    session,                   \* main.py:17-18  driver -> fastest lap data
    pc,                        \* position in the script
    track_length,              \* main.py:48-50
    i,                         \* the loop index i of the loop pc names
    current_segment,           \* main.py:56
    current_length,            \* main.py:57
    segments,                  \* main.py:44
    segment_points,            \* main.py:45
    segment_fastest_driver,    \* main.py:85
    segment_fastest_speed,     \* main.py:86
    driver_colors,             \* main.py:87
    driver,                    \* main.py:90, as a position in all_drivers
    colors,                    \* main.py:139
    segment_data,              \* main.py:319
    raised,                    \* the drivers whose iteration ended in the
                               \* handler of main.py:130-131
    call,                      \* a call of a function of f1_insights.utils:
                               \* the function and its arguments
    result                     \* what the call returned or raised

inputs == <<track_x, track_y, num_segments, all_drivers, session>>
segmentation == <<track_length, current_segment, current_length, segments,
                  segment_points>>
attribution == <<segment_fastest_driver, segment_fastest_speed, driver_colors,
                 driver>>
library == <<call, result>>
vars == <<inputs, pc, i, segmentation, attribution, colors, segment_data,
          raised, library>>

(* ------------------------------ helpers -------------------------------- *)

\* the integer square root
ISqrt(n) == CHOOSE r \in 0 .. n : r * r <= n /\ (r + 1) * (r + 1) > n

SquaredDistance(x1, y1, x2, y2) ==
    (x2 - x1) * (x2 - x1) + (y2 - y1) * (y2 - y1)

\* main.py:37-38
distance(x1, y1, x2, y2) == ISqrt(SquaredDistance(x1, y1, x2, y2))

\* the polylines whose consecutive distances distance() gives exactly
ExactTrack(xs, ys) ==
    \A k \in 1 .. Len(xs) - 1 :
        LET d == distance(xs[k], ys[k], xs[k + 1], ys[k + 1])
        IN  d * d = SquaredDistance(xs[k], ys[k], xs[k + 1], ys[k + 1])

RECURSIVE TrackLengthUpTo(_, _, _)
\* main.py:48-50, the sum after the iterations 1 .. n
TrackLengthUpTo(xs, ys, n) ==
    IF n < 1 THEN 0
    ELSE TrackLengthUpTo(xs, ys, n - 1)
         + distance(xs[n], ys[n], xs[n + 1], ys[n + 1])

\* mutant of ReachedTarget: the target must be exceeded, not reached
ReachedTarget_Strict(len) ==
    IF num_segments > 0 THEN len * num_segments > track_length
    ELSE IF num_segments = 0 THEN FALSE
    ELSE len * num_segments < track_length

\* main.py:53 and the test of main.py:71.  segment_target_length is
\* track_length / num_segments; len >= it by cross-multiplication.  With
\* num_segments = 0 the float64 quotient is inf or nan and the test is false.
ReachedTarget(len) ==
    IF num_segments > 0 THEN len * num_segments >= track_length
    ELSE IF num_segments = 0 THEN FALSE
    ELSE len * num_segments <= track_length

\* mutant of Midpoint: the lower middle, index (len - 1) // 2
Midpoint_LowerMiddle(segment) == segment[((Len(segment) - 1) \div 2) + 1]

\* main.py:76-77
Midpoint(segment) == segment[(Len(segment) \div 2) + 1]

(* ------------------------------- inputs -------------------------------- *)

Sample(pos, speed) == [X |-> pos[1], Y |-> pos[2], Speed |-> speed]

\* the telemetry of a lap: at most MaxSamples samples at positions of
\* SamplePath, in the order of the path
Telemetries ==
    UNION { { [j \in 1 .. n |-> Sample(SamplePath[idx[j]], sp[j])] :
                idx \in { f \in [1 .. n -> 1 .. Len(SamplePath)] :
                            \A j \in 1 .. n - 1 : f[j] < f[j + 1] },
                sp \in [1 .. n -> Speeds] } :
            n \in 1 .. MaxSamples }

\* what session.laps.pick_drivers(d).pick_fastest() and get_telemetry() give:
\* no lap, a lap without telemetry, or a lap with telemetry
LapData ==
    { [empty |-> TRUE, tel |-> <<>>] } \cup
    { [empty |-> FALSE, tel |-> t] : t \in Telemetries \cup {<<>>} }

(* Segmentation inputs: every track of at most MaxPoints points, every     *)
(* target count, and a session without drivers.                            *)
InitSegmentationInputs ==
    /\ \E n \in 0 .. MaxPoints :
        /\ track_x \in [1 .. n -> TrackXs]
        /\ track_y \in [1 .. n -> TrackYs]
    /\ ExactTrack(track_x, track_y)
    /\ num_segments \in SegmentCounts
    /\ all_drivers = <<>>
    /\ session = <<>>

(* Attribution inputs: the straight track with each of its target counts,  *)
(* or a track of fewer than 2 points, and every session of the two drivers. *)
InitAttributionInputs ==
    /\ \E n \in {0, 1, Len(ExampleTrackX)} :
        /\ track_x = SubSeq(ExampleTrackX, 1, n)
        /\ track_y = SubSeq(ExampleTrackY, 1, n)
        /\ num_segments \in IF n < 2 THEN {80} ELSE ExampleCounts
    /\ all_drivers = <<"A", "B">>
    /\ session \in [Drivers -> LapData]

\* no call of the library is in progress
NoCall == [fn |-> "none"]
Pending == [status |-> "pending"]

\* the script's own variables before its first statement
ScriptStart ==
    /\ track_length = 0
    /\ i = 0
    /\ current_segment = <<>>
    /\ current_length = 0
    /\ segments = <<>>
    /\ segment_points = <<>>
    /\ segment_fastest_driver = <<>>
    /\ segment_fastest_speed = <<>>
    /\ driver_colors = <<>>
    /\ driver = 0
    /\ colors = <<>>
    /\ segment_data = <<>>
    /\ raised = {}

Init ==
    /\ InitSegmentationInputs \/ InitAttributionInputs
    /\ pc = "length"
    /\ ScriptStart
    /\ call = NoCall
    /\ result = Pending

(* ----------------------------- segmentation ---------------------------- *)

\* main.py:47-57.  With fewer than 2 points track_length stays the int 0,
\* and 0 / 0 raises ZeroDivisionError, which nothing catches; a float64
\* track_length divided by 0 gives inf or nan with a warning.
ComputeTrackLength ==
    /\ pc = "length"
    /\ track_length' = TrackLengthUpTo(track_x, track_y, Len(track_x) - 1)
    /\ IF num_segments = 0 /\ Len(track_x) < 2
       THEN pc' = "crashed" /\ i' = i
       ELSE pc' = "segment" /\ i' = 1
    /\ current_segment' = <<>>
    /\ current_length' = 0
    /\ UNCHANGED <<inputs, raised, library, segments, segment_points, attribution, colors,
                   segment_data>>

\* mutant of TrackPoint: the coordinates taken in the wrong order
TrackPoint_Swapped(k) == <<track_y[k], track_x[k]>>

\* main.py:60-61, a point of the polyline
TrackPoint(k) == <<track_x[k], track_y[k]>>

\* mutant of ClosesSegment: the final point does not close a segment
ClosesSegment_NoFinalCut(len) == ReachedTarget(len)

\* main.py:71, the test that closes the segment at iteration i
ClosesSegment(len) == ReachedTarget(len) \/ i = Len(track_x) - 1

\* mutant of Retained: a segment needs a point between its ends
Retained_Inner(segment) == Len(segment) >= 3

\* main.py:73, the guard under which a closed segment is stored
Retained(segment) == Len(segment) >= 2

\* main.py:59-80, one iteration of the loop (i is Python's i; the points
\* track[i-1] and track[i] of the script are the model's i and i + 1)
SegmentStep ==
    /\ pc = "segment"
    /\ i <= Len(track_x) - 1
    /\ LET pt1 == TrackPoint(i)
           pt2 == TrackPoint(i + 1)
           segment_length == distance(pt1[1], pt1[2], pt2[1], pt2[2])
           started == IF current_segment = <<>> THEN <<pt1>>
                      ELSE current_segment
           segment == Append(started, pt2)
           length == current_length + segment_length
       IN  IF ClosesSegment(length)
           THEN /\ IF Retained(segment)
                   THEN /\ segments' = Append(segments, segment)
                        /\ segment_points' =
                               Append(segment_points, Midpoint(segment))
                   ELSE UNCHANGED <<segments, segment_points>>
                /\ current_segment' = <<pt2>>
                /\ current_length' = 0
           ELSE /\ current_segment' = segment
                /\ current_length' = length
                /\ UNCHANGED <<segments, segment_points>>
    /\ i' = i + 1
    /\ UNCHANGED <<inputs, raised, library, pc, track_length, attribution, colors,
                   segment_data>>

(* ----------------------------- attribution ----------------------------- *)

\* mutant of InitialSpeed: a sentinel below every speed
InitialSpeed_Negative == 0 - 1

\* main.py:86, the fastest speed of a segment before any driver
InitialSpeed == 0

\* main.py:82-87, reached when the loop of main.py:59 is exhausted
PrepareAttribution ==
    /\ pc = "segment"
    /\ i > Len(track_x) - 1
    /\ segment_fastest_driver' = [k \in 1 .. Len(segments) |-> None]
    /\ segment_fastest_speed' = [k \in 1 .. Len(segments) |-> InitialSpeed]
    /\ driver_colors' = <<>>
    /\ driver' = 1
    /\ pc' = "driver"
    /\ UNCHANGED <<inputs, raised, library, i, segmentation, colors, segment_data>>

\* mutant of NoData: the test of the telemetry is missing
NoData_LapOnly(lap) == lap.empty

\* main.py:93-104, the two tests that skip a driver
NoData(lap) == lap.empty \/ lap.tel = <<>>

\* main.py:90-104: a driver without a lap or without telemetry is skipped
SkipDriver ==
    /\ pc = "driver"
    /\ driver <= Len(all_drivers)
    /\ NoData(session[all_drivers[driver]])
    /\ driver' = driver + 1
    /\ UNCHANGED <<inputs, raised, library, pc, i, segmentation, segment_fastest_driver,
                   segment_fastest_speed, driver_colors, colors,
                   segment_data>>

\* the colour fastf1.plotting.driver_color gives a driver it knows
TeamColor(d) == IF d = "A" THEN "orange" ELSE "blue"

\* mutant of WithColor: the handler of main.py:109 makes no entry
WithColor_NoFallback(entries, d, c) ==
    IF c = "gray" THEN entries
    ELSE [x \in DOMAIN entries \cup {d} |-> IF x = d THEN c ELSE entries[x]]

\* main.py:107 and 110: driver_colors[driver] = c
WithColor(entries, d, c) ==
    [x \in DOMAIN entries \cup {d} |-> IF x = d THEN c ELSE entries[x]]

\* main.py:106-110: driver_color(d), or 'gray' when it raises
StartDriver ==
    /\ pc = "driver"
    /\ driver <= Len(all_drivers)
    /\ ~NoData(session[all_drivers[driver]])
    /\ LET d == all_drivers[driver]
       IN  \E c \in {TeamColor(d), "gray"} :
               driver_colors' = WithColor(driver_colors, d, c)
    /\ i' = 0
    /\ pc' = "speed"
    /\ UNCHANGED <<inputs, raised, library, segmentation, segment_fastest_driver,
                   segment_fastest_speed, driver, colors, segment_data>>

\* main.py:118, as squared distances
Distances(tel, mid_x, mid_y) ==
    [j \in 1 .. Len(tel) |-> SquaredDistance(tel[j].X, tel[j].Y, mid_x, mid_y)]

\* mutant of ArgMin: np.argmax, the first index of the greatest value
ArgMin_Farthest(values) ==
    CHOOSE j \in 1 .. Len(values) :
        /\ \A k \in 1 .. Len(values) : values[j] >= values[k]
        /\ \A k \in 1 .. j - 1 : values[k] < values[j]

\* np.argmin (main.py:119): the first index of the least value
ArgMin(values) ==
    CHOOSE j \in 1 .. Len(values) :
        /\ \A k \in 1 .. Len(values) : values[j] <= values[k]
        /\ \A k \in 1 .. j - 1 : values[k] > values[j]

\* mutant of ClosestSpeed: the first sample, wherever it is
ClosestSpeed_First(tel, mid) == tel[1].Speed

\* main.py:115-122: the speed of the sample closest to the midpoint
ClosestSpeed(tel, mid) == tel[ArgMin(Distances(tel, mid[1], mid[2]))].Speed

\* mutant of IsFaster: the speed is compared with 0, not with the fastest
IsFaster_Positive(speed, fastest) == speed > 0

\* mutant of IsFaster: an equal speed overwrites
IsFaster_OrEqual(speed, fastest) == speed >= fastest

\* main.py:125, the test that makes a driver the fastest of a segment
IsFaster(speed, fastest) == speed > fastest

\* mutant of Caught: no handler, the exception ends the script
Caught_Propagates ==
    /\ raised' = raised \cup {all_drivers[driver]}
    /\ driver' = driver
    /\ pc' = "crashed"

\* main.py:130-131: an exception raised in the body of the loop over the
\* drivers is caught and printed, and the loop goes on with the next driver
Caught ==
    /\ raised' = raised \cup {all_drivers[driver]}
    /\ driver' = driver + 1
    /\ pc' = "driver"

\* main.py:113-127, one iteration of the loop over the segments (i is the
\* index of enumerate; the model's sequences start at 1).  np.argmin of an
\* empty series raises, which main.py:130 catches.
SegmentSpeed ==
    /\ pc = "speed"
    /\ i < Len(segments)
    /\ LET d == all_drivers[driver]
           driver_tel == session[d].tel
       IN  IF driver_tel = <<>>
           THEN /\ Caught
                /\ UNCHANGED <<i, segment_fastest_driver,
                               segment_fastest_speed>>
           ELSE LET speed == ClosestSpeed(driver_tel, segment_points[i + 1])
                IN  /\ IF IsFaster(speed, segment_fastest_speed[i + 1])
                       THEN /\ segment_fastest_driver' =
                                [segment_fastest_driver EXCEPT ![i + 1] = d]
                            /\ segment_fastest_speed' =
                                [segment_fastest_speed EXCEPT ![i + 1] = speed]
                       ELSE UNCHANGED <<segment_fastest_driver,
                                        segment_fastest_speed>>
                    /\ i' = i + 1
                    /\ UNCHANGED <<pc, driver, raised>>
    /\ UNCHANGED <<inputs, library, segmentation, driver_colors, colors,
                   segment_data>>

\* main.py:129, the end of a driver's iteration
DriverDone ==
    /\ pc = "speed"
    /\ i >= Len(segments)
    /\ driver' = driver + 1
    /\ pc' = "driver"
    /\ UNCHANGED <<inputs, raised, library, i, segmentation, segment_fastest_driver,
                   segment_fastest_speed, driver_colors, colors,
                   segment_data>>

\* main.py:92-104: session.laps.pick_drivers(), pick_fastest() or
\* get_telemetry() raises (fastf1 fails on the data of the driver); no
\* colour entry has been made
RaiseInLapSelection ==
    /\ pc = "driver"
    /\ driver <= Len(all_drivers)
    /\ Caught
    /\ UNCHANGED <<inputs, library, i, segmentation, segment_fastest_driver,
                   segment_fastest_speed, driver_colors, colors,
                   segment_data>>

\* main.py:113-127: the body of the loop over the segments raises at
\* iteration i (a missing column, a value that is not a number); the
\* segments before i keep what this driver gave them
RaiseInSegmentLoop ==
    /\ pc = "speed"
    /\ i < Len(segments)
    /\ Caught
    /\ UNCHANGED <<inputs, library, i, segmentation, segment_fastest_driver,
                   segment_fastest_speed, driver_colors, colors,
                   segment_data>>

RECURSIVE AttributeDrivers(_, _)
\* main.py:84-131 as a function of the driver list: the attribution after
\* the first n drivers of ds, for the segments and the session of the state
AttributeDrivers(ds, n) ==
    IF n = 0
    THEN [fastest_driver |-> [k \in 1 .. Len(segments) |-> None],
          fastest_speed |-> [k \in 1 .. Len(segments) |-> InitialSpeed]]
    ELSE LET before == AttributeDrivers(ds, n - 1)
             lap == session[ds[n]]
             faster == { k \in 1 .. Len(segments) :
                           IsFaster(ClosestSpeed(lap.tel, segment_points[k]),
                                    before.fastest_speed[k]) }
         IN  IF NoData(lap) THEN before
             ELSE [fastest_driver |->
                       [k \in 1 .. Len(segments) |->
                           IF k \in faster THEN ds[n]
                           ELSE before.fastest_driver[k]],
                   fastest_speed |->
                       [k \in 1 .. Len(segments) |->
                           IF k \in faster
                           THEN ClosestSpeed(lap.tel, segment_points[k])
                           ELSE before.fastest_speed[k]]]

(* ------------------------- rendering and export ------------------------ *)

\* main.py:133-139, reached when the loop of main.py:90 is exhausted
StartRender ==
    /\ pc = "driver"
    /\ driver > Len(all_drivers)
    /\ colors' = <<>>
    /\ i' = 0
    /\ pc' = "render"
    /\ UNCHANGED <<inputs, raised, library, segmentation, attribution, segment_data>>

\* mutant of IsAttributed: every segment is sent to the colour lookup
IsAttributed_Always(d) == TRUE

\* main.py:144, the test that sends a segment to the colour lookup
IsAttributed(d) == d /= None

\* main.py:141-147: the colour of segment i; driver_colors[d] raises
\* KeyError for a driver without an entry, which nothing catches
RenderSegment ==
    /\ pc = "render"
    /\ i < Len(segments)
    /\ LET d == segment_fastest_driver[i + 1]
       IN  IF IsAttributed(d)
           THEN IF d \in DOMAIN driver_colors
                THEN /\ colors' = Append(colors, driver_colors[d])
                     /\ i' = i + 1
                     /\ pc' = pc
                ELSE /\ pc' = "crashed"
                     /\ UNCHANGED <<colors, i>>
           ELSE /\ colors' = Append(colors, "gray")
                /\ i' = i + 1
                /\ pc' = pc
    /\ UNCHANGED <<inputs, raised, library, segmentation, attribution, segment_data>>

\* main.py:149-234: the plot; min(track_x) of main.py:210 raises ValueError
\* for an empty track, which nothing catches
SavePlot ==
    /\ pc = "render"
    /\ i >= Len(segments)
    /\ pc' = IF Len(track_x) = 0 THEN "crashed" ELSE "export"
    /\ UNCHANGED <<inputs, raised, library, i, segmentation, attribution, colors, segment_data>>

\* main.py:310-335: one row per segment
ExportSegments ==
    /\ pc = "export"
    /\ segment_data' =
           [k \in 1 .. Len(segments) |->
               [SegmentID |-> k - 1,
                MidpointX |-> segment_points[k][1],
                MidpointY |-> segment_points[k][2],
                FastestDriver |-> segment_fastest_driver[k],
                FastestSpeed |-> segment_fastest_speed[k]]]
    /\ pc' = "done"
    /\ UNCHANGED <<inputs, raised, library, i, segmentation, attribution, colors>>

Next ==
    \/ ComputeTrackLength
    \/ SegmentStep
    \/ PrepareAttribution
    \/ SkipDriver
    \/ StartDriver
    \/ SegmentSpeed
    \/ DriverDone
    \/ StartRender
    \/ RenderSegment
    \/ SavePlot
    \/ ExportSegments

Spec == Init /\ [][Next]_vars

(* ---------------- the script with failing library calls ---------------- *)

\* laps of at most one telemetry sample
ShortLapData == { lap \in LapData : Len(lap.tel) <= 1 }

\* the straight track with each of its target counts and every session of
\* short laps
InitErrors ==
    /\ track_x = ExampleTrackX
    /\ track_y = ExampleTrackY
    /\ num_segments \in ExampleCounts
    /\ all_drivers = <<"A", "B">>
    /\ session \in [Drivers -> ShortLapData]
    /\ pc = "length"
    /\ ScriptStart
    /\ call = NoCall
    /\ result = Pending

\* the script, where any iteration of the loop over the drivers may raise
NextErrors ==
    \/ ComputeTrackLength
    \/ SegmentStep
    \/ PrepareAttribution
    \/ SkipDriver
    \/ StartDriver
    \/ SegmentSpeed
    \/ DriverDone
    \/ RaiseInLapSelection
    \/ RaiseInSegmentLoop
    \/ StartRender
    \/ RenderSegment
    \/ SavePlot
    \/ ExportSegments

SpecErrors == InitErrors /\ [][NextErrors]_vars

(* =================== the functions of f1_insights.utils ================ *)

(* A table (pandas DataFrame) is its set of columns and its rows in order.  *)
Table(columns, rows) == [columns |-> columns, rows |-> rows]

\* pd.DataFrame(): no column and no row
EmptyDataFrame == Table({}, <<>>)

TelemetryColumns == {"Distance", "Speed", "DistanceToCarAhead"}

Returned(value) == [status |-> "returned", value |-> value]
Raised(error) == [status |-> "raised", error |-> error]

\* the script is not running: its variables keep their first values
ScriptIdle ==
    /\ track_x = <<>>
    /\ track_y = <<>>
    /\ num_segments = 80
    /\ all_drivers = <<>>
    /\ session = <<>>
    /\ pc = "idle"
    /\ ScriptStart

(* ------------------------- analyze_slipstream -------------------------- *)

\* telemetry_utils.py:48-49, the default thresholds
DefaultMinDistance == 50
DefaultMinSpeed == 300

\* gaps to the car ahead and speeds below, at and above the thresholds
GapsAhead == {30, DefaultMinDistance, 60}
TopSpeeds == {290, DefaultMinSpeed, 320}
\* an optional argument: <<>> when the caller leaves it out, <<v>> when
\* the caller gives v
Omitted == <<>>
Argument(arg, default) == IF arg = Omitted THEN default ELSE arg[1]

MinDistances == {Omitted, <<60>>}
MinSpeeds == {Omitted, <<290>>}

\* the non-empty telemetry sections of at most MaxRows rows
SlipstreamTelemetries ==
    UNION { { Table(TelemetryColumns,
                    [j \in 1 .. n |->
                        [Distance |-> 100 * j, Speed |-> sp[j],
                         DistanceToCarAhead |-> gap[j]]]) :
                sp \in [1 .. n -> TopSpeeds], gap \in [1 .. n -> GapsAhead] } :
            n \in 1 .. MaxRows }

SlipstreamCalls ==
    { [fn |-> "analyze_slipstream", telemetry |-> t, min_distance |-> md,
       min_speed |-> ms] :
        t \in SlipstreamTelemetries, md \in MinDistances, ms \in MinSpeeds }

\* a column of a table, as the sequence of its values
Column(table, name) == [j \in 1 .. Len(table.rows) |-> table.rows[j][name]]

RECURSIVE SeriesMin(_)
\* Series.min() of a non-empty series
SeriesMin(values) ==
    IF Len(values) = 1 THEN values[1]
    ELSE LET rest == SeriesMin(Tail(values))
         IN  IF values[1] < rest THEN values[1] ELSE rest

RECURSIVE SeriesMax(_)
\* Series.max() of a non-empty series
SeriesMax(values) ==
    IF Len(values) = 1 THEN values[1]
    ELSE LET rest == SeriesMax(Tail(values))
         IN  IF values[1] > rest THEN values[1] ELSE rest

\* mutant of HasSlipstream: the thresholds themselves count
HasSlipstream_Inclusive(min_dist, max_speed, min_distance, min_speed) ==
    (min_dist <= min_distance) /\ (max_speed >= min_speed)

\* telemetry_utils.py:71
HasSlipstream(min_dist, max_speed, min_distance, min_speed) ==
    (min_dist < min_distance) /\ (max_speed > min_speed)

\* telemetry_utils.py:46-73
analyze_slipstream(telemetry, min_distance, min_speed) ==
    LET min_dist == SeriesMin(Column(telemetry, "DistanceToCarAhead"))
        max_speed == SeriesMax(Column(telemetry, "Speed"))
        has_slipstream ==
            HasSlipstream(min_dist, max_speed, min_distance, min_speed)
    IN  <<has_slipstream, min_dist, max_speed>>

AnalyzeSlipstream ==
    /\ call.fn = "analyze_slipstream"
    /\ result = Pending
    /\ result' = Returned(analyze_slipstream(
                              call.telemetry,
                              Argument(call.min_distance, DefaultMinDistance),
                              Argument(call.min_speed, DefaultMinSpeed)))
    /\ UNCHANGED <<inputs, pc, i, segmentation, attribution, colors,
                   segment_data, raised, call>>

(* -------------------- get_straight_section_telemetry ------------------ *)

CornerNumbers == {"Turn 13", "Turn 14"}
CornerDistances == {100, 300}
SectionDistances == {0, 100, 200, 300, 400}

\* circuit.corners: at most MaxCorners rows, a Number possibly twice
CornerTables ==
    UNION { { Table({"Number", "Distance"},
                    [j \in 1 .. n |->
                        [Number |-> num[j], Distance |-> dist[j]]]) :
                num \in [1 .. n -> CornerNumbers],
                dist \in [1 .. n -> CornerDistances] } :
            n \in 0 .. MaxCorners }

\* telemetry of at most MaxRows rows at any distances, in any order; the
\* Speed tells the rows apart
SectionTelemetries ==
    UNION { { Table(TelemetryColumns,
                    [j \in 1 .. n |->
                        [Distance |-> dist[j], Speed |-> 200 + j,
                         DistanceToCarAhead |-> 60]]) :
                dist \in [1 .. n -> SectionDistances] } :
            n \in 0 .. MaxRows }

SectionCalls ==
    { [fn |-> "get_straight_section_telemetry", telemetry |-> t,
       start_corner |-> sc, end_corner |-> ec, corners |-> c] :
        t \in SectionTelemetries, sc \in CornerNumbers, ec \in CornerNumbers,
        c \in CornerTables }

\* table[table[name] == value]: the rows whose column name has the value
RowsWhere(table, name, value) ==
    LET Matches(row) == row[name] = value
    IN  Table(table.columns, SelectSeq(table.rows, Matches))

\* DataFrame.empty
Empty(table) == table.rows = <<>> \/ table.columns = {}

\* mutant of FirstRow: .iloc[-1], the last row
FirstRow_Last(table) == table.rows[Len(table.rows)]

\* .iloc[0] of the columns of a selection: its first row
FirstRow(table) == table.rows[1]

\* mutant of CornersMissing: only both corners missing counts
CornersMissing_Both(start_corner_data, end_corner_data) ==
    Empty(start_corner_data) /\ Empty(end_corner_data)

\* telemetry_utils.py:31
CornersMissing(start_corner_data, end_corner_data) ==
    Empty(start_corner_data) \/ Empty(end_corner_data)

\* mutant of InSection: the end of the section is left out
InSection_Exclusive(d, start_distance, end_distance) ==
    d >= start_distance /\ d < end_distance

\* telemetry_utils.py:40-41
InSection(d, start_distance, end_distance) ==
    d >= start_distance /\ d <= end_distance

\* telemetry_utils.py:9-44; .iloc[0] of an empty selection raises IndexError
get_straight_section_telemetry(telemetry, start_corner, end_corner, corners) ==
    LET start_corner_data == RowsWhere(corners, "Number", start_corner)
        end_corner_data == RowsWhere(corners, "Number", end_corner)
    IN  IF CornersMissing(start_corner_data, end_corner_data)
        THEN Returned(EmptyDataFrame)
        ELSE IF Empty(start_corner_data) \/ Empty(end_corner_data)
        THEN Raised("IndexError")
        ELSE LET start_distance == FirstRow(start_corner_data).Distance
                 end_distance == FirstRow(end_corner_data).Distance
                 Keep(row) ==
                     InSection(row.Distance, start_distance, end_distance)
             IN  Returned(Table(telemetry.columns,
                                SelectSeq(telemetry.rows, Keep)))

GetStraightSectionTelemetry ==
    /\ call.fn = "get_straight_section_telemetry"
    /\ result = Pending
    /\ result' = get_straight_section_telemetry(
                      call.telemetry, call.start_corner, call.end_corner,
                      call.corners)
    /\ UNCHANGED <<inputs, pc, i, segmentation, attribution, colors,
                   segment_data, raised, call>>

(* ---------------------------- get_driver_info -------------------------- *)

ResultColumns ==
    {"Abbreviation", "FirstName", "LastName", "DriverNumber", "TeamName"}

\* rows of session.results; two drivers share the abbreviation MSC
ResultRows ==
    { [Abbreviation |-> "HAM", FirstName |-> "Lewis", LastName |-> "Hamilton",
       DriverNumber |-> "44", TeamName |-> "Ferrari"],
      [Abbreviation |-> "MSC", FirstName |-> "Michael",
       LastName |-> "Schumacher", DriverNumber |-> "7",
       TeamName |-> "Mercedes"],
      [Abbreviation |-> "MSC", FirstName |-> "Mick",
       LastName |-> "Schumacher", DriverNumber |-> "47",
       TeamName |-> "Haas F1 Team"] }

ResultTables ==
    UNION { { Table(ResultColumns, rows) : rows \in [1 .. n -> ResultRows] } :
            n \in 0 .. MaxResults }

DriverCodes == {"HAM", "MSC", "XXX"}

DriverInfoCalls ==
    { [fn |-> "get_driver_info", results |-> r, driver_code |-> c] :
        r \in ResultTables, c \in DriverCodes }

\* mutant of default_info: the name is a placeholder too
default_info_NoName(driver_code) ==
    [name |-> "Unknown", number |-> "N/A", team |-> "Unknown"]

\* driver_utils.py:24-28
default_info(driver_code) ==
    [name |-> driver_code, number |-> "N/A", team |-> "Unknown"]

\* driver_utils.py:6-38
get_driver_info(results, driver_code) ==
    LET driver_data == RowsWhere(results, "Abbreviation", driver_code)
    IN  IF Empty(driver_data) THEN default_info(driver_code)
        ELSE [name |-> FirstRow(driver_data).FirstName \o " "
                           \o FirstRow(driver_data).LastName,
              number |-> FirstRow(driver_data).DriverNumber,
              team |-> FirstRow(driver_data).TeamName]

GetDriverInfo ==
    /\ call.fn = "get_driver_info"
    /\ result = Pending
    /\ result' = Returned(get_driver_info(call.results, call.driver_code))
    /\ UNCHANGED <<inputs, pc, i, segmentation, attribution, colors,
                   segment_data, raised, call>>

(* ------------------------ get_driver_lap_telemetry --------------------- *)

LapColumns == {"Driver", "LapNumber", "LapTime"}
LapDrivers == {"HAM", "VER"}
LapNumbers == {1, 2}
LapTimes == {79, 80}

\* what get_telemetry() gives for the lap at place j of session.laps: a
\* table of its own
LapTelemetry(j) ==
    Table(TelemetryColumns,
          << [Distance |-> 0, Speed |-> 200 + j, DistanceToCarAhead |-> 60] >>)

\* session.laps: at most MaxLaps laps, each with a lap time, no driver with
\* two laps of the same LapNumber
LapTables ==
    UNION { { Table(LapColumns,
                    [j \in 1 .. n |->
                        [Driver |-> d[j], LapNumber |-> num[j],
                         LapTime |-> time[j], Telemetry |-> LapTelemetry(j)]]) :
                d \in [1 .. n -> LapDrivers],
                num \in [1 .. n -> LapNumbers],
                time \in [1 .. n -> LapTimes] } :
            n \in 0 .. MaxLaps }

UniqueLapNumbers(laps) ==
    \A a, b \in 1 .. Len(laps.rows) :
        (/\ a /= b
         /\ laps.rows[a].Driver = laps.rows[b].Driver) =>
            laps.rows[a].LapNumber /= laps.rows[b].LapNumber

LapTelemetryCalls ==
    { [fn |-> "get_driver_lap_telemetry", laps |-> l, driver |-> d,
       lap_number |-> n] :
        l \in { t \in LapTables : UniqueLapNumbers(t) },
        d \in LapDrivers,
        n \in {Omitted} \cup { <<k>> : k \in LapNumbers } }

\* mutant of DriverLaps: the laps of every driver
DriverLaps_All(laps, of_driver) == laps

\* telemetry_utils.py:91 (of_driver is the argument driver)
DriverLaps(laps, of_driver) == RowsWhere(laps, "Driver", of_driver)

\* Laps.pick_fastest() of laps that all have a lap time: the lap of the
\* least LapTime, the first of them
pick_fastest(laps) ==
    Table(laps.columns, << laps.rows[ArgMin(Column(laps, "LapTime"))] >>)

\* telemetry_utils.py:75-108
get_driver_lap_telemetry(laps, of_driver, lap_number) ==
    LET driver_laps == DriverLaps(laps, of_driver)
    IN  IF Empty(driver_laps) THEN EmptyDataFrame
        ELSE LET lap == IF lap_number /= Omitted
                        THEN RowsWhere(driver_laps, "LapNumber", lap_number[1])
                        ELSE pick_fastest(driver_laps)
             IN  IF Empty(lap) THEN EmptyDataFrame
                 ELSE FirstRow(lap).Telemetry

GetDriverLapTelemetry ==
    /\ call.fn = "get_driver_lap_telemetry"
    /\ result = Pending
    /\ result' = Returned(get_driver_lap_telemetry(call.laps, call.driver,
                                                   call.lap_number))
    /\ UNCHANGED <<inputs, pc, i, segmentation, attribution, colors,
                   segment_data, raised, call>>

(* ----------------------------- the calls ------------------------------- *)

LibraryCalls ==
    SlipstreamCalls \cup SectionCalls \cup DriverInfoCalls
        \cup LapTelemetryCalls

InitLibrary ==
    /\ ScriptIdle
    /\ call \in LibraryCalls
    /\ result = Pending

NextLibrary ==
    \/ AnalyzeSlipstream
    \/ GetStraightSectionTelemetry
    \/ GetDriverInfo
    \/ GetDriverLapTelemetry

SpecLibrary == InitLibrary /\ [][NextLibrary]_vars

(* ======================= properties of the script ====================== *)

\* the input polyline as a sequence of points
Polyline == [k \in 1 .. Len(track_x) |-> <<track_x[k], track_y[k]>>]

\* a track of at least 2 points and a positive target count
ValidInput == Len(track_x) >= 2 /\ num_segments >= 1

\* the loop of main.py:59 has run to its end
SegmentationDone ==
    \/ (pc = "segment" /\ i > Len(track_x) - 1)
    \/ pc \in {"driver", "speed", "render", "export", "done"}
    \/ (pc = "crashed" /\ driver >= 1)

RECURSIVE Joined(_)
\* the segments one after another, the first point of every segment after
\* the first dropped
Joined(segs) ==
    IF segs = <<>> THEN <<>>
    ELSE IF Len(segs) = 1 THEN segs[1]
    ELSE Joined(SubSeq(segs, 1, Len(segs) - 1)) \o Tail(segs[Len(segs)])

RECURSIVE PathLength(_)
\* the length of a sequence of points (0 for fewer than 2 points)
PathLength(points) ==
    IF Len(points) < 2 THEN 0
    ELSE LET n == Len(points)
         IN  PathLength(SubSeq(points, 1, n - 1))
             + ISqrt((points[n][1] - points[n - 1][1]) * (points[n][1] - points[n - 1][1])
                     + (points[n][2] - points[n - 1][2]) * (points[n][2] - points[n - 1][2]))

\* C1: for a track of at least 2 points and a positive target count, once
\* the segmentation loop has ended, the retained segments joined in order
\* (the first point of every segment after the first dropped) are exactly
\* the input polyline.
C1_Reconstruction ==
    (ValidInput /\ SegmentationDone) => Joined(segments) = Polyline

\* C1 witness: a finished segmentation of a track of 4 points or more into
\* several segments, one of them of 3 points or more
C1_Witness ==
    /\ ValidInput /\ SegmentationDone
    /\ Len(track_x) >= 4
    /\ Len(segments) >= 2
    /\ \E k \in 1 .. Len(segments) : Len(segments[k]) >= 3
    /\ Joined(segments) = Polyline

\* C2 (as claimed): for a track of at least 2 points, repeated points and
\* zero total length included, and a positive target count N, there are at
\* most N retained segments and at most (points - 1).
C2_CountBound ==
    ValidInput =>
        /\ Len(segments) <= num_segments
        /\ Len(segments) <= Len(track_x) - 1

\* C3 (as claimed), in every state of the segmentation loop, its end
\* included: a segment is closed exactly when the length accumulated
\* since the previous cut is >= L/N or the final point is reached: every
\* retained segment but possibly the one ending at the final point has
\* length >= L/N, every retained segment without its last point has length
\* < L/N, and so has the segment still open; the final point leaves no
\* segment open.
C3_CutRuleAsClaimed ==
    (ValidInput /\ pc = "segment") =>
        /\ \A k \in 1 .. Len(segments) :
            /\ \/ PathLength(segments[k]) * num_segments >= track_length
               \/ /\ k = Len(segments)
                  /\ SegmentationDone
            /\ PathLength(SubSeq(segments[k], 1, Len(segments[k]) - 1))
                   * num_segments < track_length
        /\ current_length = PathLength(current_segment)
        /\ Len(current_segment) >= 2 =>
               current_length * num_segments < track_length
        /\ SegmentationDone => Len(current_segment) = 1

\* C3 (amended), in every state of the segmentation loop, its end
\* included: a segment is closed exactly when the length accumulated since
\* the previous cut is >= L/N or the final point is reached: every retained
\* segment but possibly the one ending at the final point has length >= L/N,
\* the segment still open has length < L/N, and every retained segment
\* without its last point has length < L/N when L > 0 (and length 0 = L/N
\* when L = 0); the final point leaves no segment open.
C3_CutRule ==
    (ValidInput /\ pc = "segment") =>
        /\ \A k \in 1 .. Len(segments) :
            /\ \/ PathLength(segments[k]) * num_segments >= track_length
               \/ /\ k = Len(segments)
                  /\ SegmentationDone
            /\ IF track_length > 0
               THEN PathLength(SubSeq(segments[k], 1, Len(segments[k]) - 1))
                        * num_segments < track_length
               ELSE PathLength(SubSeq(segments[k], 1, Len(segments[k]) - 1)) = 0
        /\ current_length = PathLength(current_segment)
        /\ Len(current_segment) >= 2 =>
               current_length * num_segments < track_length
        /\ SegmentationDone => Len(current_segment) = 1

\* C3 witness: a cut made because the target length was reached, of a
\* segment of three points, followed by the cut at the final point
C3_Witness ==
    /\ ValidInput /\ pc = "segment" /\ SegmentationDone
    /\ track_length > 0
    /\ Len(segments) >= 2
    /\ Len(segments[1]) >= 3
    /\ PathLength(segments[1]) * num_segments > track_length
    /\ PathLength(segments[Len(segments)]) * num_segments < track_length

\* C4: every retained segment is a run of at least 2 consecutive points of
\* the input, and the last point of a retained segment is the first point of
\* the next retained segment.
C4_SegmentShape ==
    Len(track_x) >= 2 =>
        \A k \in 1 .. Len(segments) :
            /\ Len(segments[k]) >= 2
            /\ \E a \in 1 .. Len(track_x) - 1 :
                /\ a + Len(segments[k]) - 1 <= Len(track_x)
                /\ segments[k] = SubSeq(Polyline, a, a + Len(segments[k]) - 1)
            /\ k < Len(segments) =>
                   segments[k][Len(segments[k])] = segments[k + 1][1]

\* C4 witness: two retained segments, the first of three points, on a track
\* without a repeated point
C4_Witness ==
    /\ Len(segments) >= 2
    /\ Len(segments[1]) >= 3
    /\ \A a, b \in 1 .. Len(track_x) : a /= b => Polyline[a] /= Polyline[b]
    /\ segments[1][Len(segments[1])] = segments[2][1]

\* C5: one midpoint is recorded per retained segment, in order, and it is
\* the point at index floor(len / 2) (counted from 0) of that segment.
C5_Midpoint ==
    /\ Len(segment_points) = Len(segments)
    /\ \A k \in 1 .. Len(segments) :
        LET n == Len(segments[k])
        IN  segment_points[k] = segments[k][(n \div 2) + 1]

\* C5 witness: segments of 2, 3 and 4 points with their midpoints, the
\* midpoint of a 2-point segment being its last point
C5_Witness ==
    /\ \E k \in 1 .. Len(segments) :
        /\ Len(segments[k]) = 2
        /\ segments[k][1] /= segments[k][2]
        /\ segment_points[k] = segments[k][2]
    /\ \E k \in 1 .. Len(segments) :
        /\ Len(segments[k]) = 3
        /\ segments[k][1] /= segments[k][2]
        /\ segments[k][3] /= segments[k][2]
        /\ segment_points[k] = segments[k][2]

(* --------------------------- attribution ------------------------------- *)

\* the loop of main.py:90 has run to its end
AttributionDone == driver > Len(all_drivers)

\* the places in all_drivers of the drivers with a lap and telemetry
WithData ==
    { j \in 1 .. Len(all_drivers) :
        /\ ~session[all_drivers[j]].empty
        /\ Len(session[all_drivers[j]].tel) > 0 }

\* the speed of the sample of the driver at place j nearest to the midpoint
\* of segment k (the first of the nearest samples)
NearestSpeed(j, k) ==
    LET tel == session[all_drivers[j]].tel
        mid == segment_points[k]
        gap(m) == (tel[m].X - mid[1]) * (tel[m].X - mid[1])
                  + (tel[m].Y - mid[2]) * (tel[m].Y - mid[2])
        nearest == { m \in 1 .. Len(tel) : \A o \in 1 .. Len(tel) : gap(m) <= gap(o) }
    IN  tel[CHOOSE m \in nearest : \A o \in nearest : m <= o].Speed

\* the greatest nearest-sample speed at segment k, and 0 without any
BestSpeed(k) ==
    LET speeds == {0} \cup { NearestSpeed(j, k) : j \in WithData }
    IN  CHOOSE v \in speeds : \A w \in speeds : v >= w

\* C6: after all drivers are processed, fastest_speed of every segment is the
\* maximum of 0 and the nearest-sample speeds of the drivers with data, and
\* when that maximum is > 0 fastest_driver is a driver with data whose
\* nearest-sample speed is the maximum.
C6_AttributionResult ==
    AttributionDone =>
        \A k \in 1 .. Len(segments) :
            LET best == BestSpeed(k)
            IN  /\ segment_fastest_speed[k] = best
                /\ best > 0 =>
                       \E j \in WithData :
                           /\ segment_fastest_driver[k] = all_drivers[j]
                           /\ NearestSpeed(j, k) = best

\* C6 witness: both drivers have two samples of different speeds, the
\* nearest sample is not the fastest one, and the second driver is fastest
C6_Witness ==
    /\ AttributionDone
    /\ WithData = {1, 2}
    /\ \E k \in 1 .. Len(segments) :
        /\ segment_fastest_driver[k] = all_drivers[2]
        /\ segment_fastest_speed[k] = 200
        /\ NearestSpeed(1, k) = 0
        /\ \E m \in 1 .. Len(session[all_drivers[2]].tel) :
               session[all_drivers[2]].tel[m].Speed = 250
        /\ \E m \in 1 .. Len(session[all_drivers[1]].tel) :
               session[all_drivers[1]].tel[m].Speed = 250

\* C7: when two or more drivers have the same nearest-sample speed at a
\* segment and it is the segment's maximum, fastest_driver is the first of
\* them in the processing order.
C7_TieBreak ==
    AttributionDone =>
        \A k \in 1 .. Len(segments) :
            LET top == BestSpeed(k)
                best == { j \in WithData : NearestSpeed(j, k) = top }
            IN  (top > 0 /\ Cardinality(best) >= 2) =>
                    \E j \in best :
                        /\ \A o \in best : j <= o
                        /\ segment_fastest_driver[k] = all_drivers[j]

\* C7 witness: both drivers reach 250 at a segment, which stays with the
\* first driver
C7_Witness ==
    /\ AttributionDone
    /\ \E k \in 1 .. Len(segments) :
        /\ WithData = {1, 2}
        /\ NearestSpeed(1, k) = 250
        /\ NearestSpeed(2, k) = 250
        /\ segment_fastest_driver[k] = all_drivers[1]

\* every driver with data reads speed 0 at segment k (or no driver has data)
NoSpeedAt(k) == \A j \in WithData : NearestSpeed(j, k) = 0

\* C8: a segment at which every driver with data reads speed 0 (or for which
\* no driver has data) ends with fastest_driver = none and fastest_speed = 0,
\* and rendering gives it the neutral colour without a colour lookup (which
\* would fail).
C8_NoDataSegment ==
    AttributionDone =>
        /\ \A k \in 1 .. Len(segments) :
            NoSpeedAt(k) =>
                /\ segment_fastest_driver[k] = None
                /\ segment_fastest_speed[k] = 0
                /\ k <= Len(colors) => colors[k] = "gray"
                /\ ~(pc = "crashed" /\ i = k - 1)
        /\ pc \in {"export", "done"} => Len(colors) = Len(segments)

\* C8 witness: the run is over, a driver with data read 0 at a segment that
\* was rendered gray, and another segment has a driver's own colour
C8_Witness ==
    /\ pc = "done"
    /\ \E k \in 1 .. Len(segments) :
        /\ NoSpeedAt(k)
        /\ WithData /= {}
        /\ segment_fastest_driver[k] = None
        /\ colors[k] = "gray"
    /\ \E k \in 1 .. Len(segments) : colors[k] = "orange"

\* a list without its element at place j
Without(list, j) == SubSeq(list, 1, j - 1) \o SubSeq(list, j + 1, Len(list))

\* the driver at place j has no fastest lap or no telemetry
MissingData(j) ==
    session[all_drivers[j]].empty \/ Len(session[all_drivers[j]].tel) = 0

\* the attribution is the one computed over the driver list without each
\* driver that has no data, and no such driver has a colour entry
SkippedDriversLeaveNoTrace ==
    AttributionDone =>
        \A j \in 1 .. Len(all_drivers) :
            MissingData(j) =>
                /\ all_drivers[j] \notin DOMAIN driver_colors
                /\ LET rest == Without(all_drivers, j)
                       expected == AttributeDrivers(rest, Len(rest))
                   IN  /\ segment_fastest_driver = expected.fastest_driver
                       /\ segment_fastest_speed = expected.fastest_speed

\* the iteration of a driver without data changes no attribution and no
\* colour entry
SkipChangesNothing ==
    (pc = "driver" /\ driver <= Len(all_drivers) /\ MissingData(driver)) =>
        /\ segment_fastest_driver' = segment_fastest_driver
        /\ segment_fastest_speed' = segment_fastest_speed
        /\ driver_colors' = driver_colors

\* C9: a driver whose fastest lap is empty or whose telemetry is empty is
\* skipped without a change to any segment's fastest_driver or
\* fastest_speed and without a colour entry, and the final attribution is
\* the attribution computed over the driver list with that driver removed.
C9_MissingDriverData ==
    [][SkipChangesNothing]_vars /\ []SkippedDriversLeaveNoTrace

\* C9 witness: the first driver has a lap without telemetry, the second is
\* attributed a segment
C9_Witness ==
    /\ AttributionDone
    /\ Len(all_drivers) = 2
    /\ ~session[all_drivers[1]].empty
    /\ session[all_drivers[1]].tel = <<>>
    /\ DOMAIN driver_colors = {all_drivers[2]}
    /\ \E k \in 1 .. Len(segments) : segment_fastest_driver[k] = all_drivers[2]

\* C10 (as claimed): with fewer than 2 track points, or a target count <= 0,
\* the script fails at once: it never gets past the computation of the
\* target length, and no segment, attribution or export row is produced.
C10_FailFast ==
    (Len(track_x) < 2 \/ num_segments <= 0) =>
        /\ pc \in {"length", "crashed"}
        /\ pc = "crashed" => driver = 0
        /\ segments = <<>>
        /\ driver_colors = <<>>
        /\ segment_data = <<>>

\* C11: when the processing of a driver raises, at lap selection, at
\* telemetry retrieval or partway through the loop over the segments, the
\* error is caught: the script does not stop before its end, every driver
\* with data whose own processing did not raise has its colour entry and
\* its nearest-sample speed counted at every segment, and the run ends with
\* one colour and one exported record per segment.
C11_ErrorIsolation ==
    ValidInput =>
        /\ pc /= "crashed"
        /\ pc /= "done" => ENABLED NextErrors
        /\ AttributionDone =>
               \A j \in WithData :
                   all_drivers[j] \notin raised =>
                       /\ all_drivers[j] \in DOMAIN driver_colors
                       /\ \A k \in 1 .. Len(segments) :
                              segment_fastest_speed[k] >= NearestSpeed(j, k)
        /\ pc = "done" =>
               /\ Len(colors) = Len(segments)
               /\ Len(segment_data) = Len(segments)

\* C11 witness: the first driver raised after it was given the first
\* segment and before it reached the second, and the run ended with the
\* second segment given to the second driver
C11_Witness ==
    /\ pc = "done"
    /\ raised = {all_drivers[1]}
    /\ WithData = {1, 2}
    /\ Len(segment_data) = 2
    /\ segment_data[1].FastestDriver = all_drivers[1]
    /\ NearestSpeed(1, 2) > NearestSpeed(2, 2)
    /\ segment_data[2].FastestDriver = all_drivers[2]

\* every order in which the drivers of all_drivers can be processed
DriverOrders ==
    LET n == Len(all_drivers)
        places == { p \in [1 .. n -> 1 .. n] :
                      \A a, b \in 1 .. n : a /= b => p[a] /= p[b] }
    IN  { [j \in 1 .. n |-> all_drivers[p[j]]] : p \in places }

\* the drivers with data whose nearest-sample speed at segment k is the
\* greatest
Fastest(k) ==
    { j \in WithData : \A o \in WithData : NearestSpeed(j, k) >= NearestSpeed(o, k) }

\* C12: for a fixed set of drivers and data, the final fastest_speed of
\* every segment is the same whatever the order in which the drivers are
\* processed, and so is the final fastest_driver of every segment whose
\* greatest nearest-sample speed is reached by exactly one driver.
C12_OrderIndependence ==
    (pc = "driver" /\ AttributionDone) =>
        \A order \in DriverOrders :
            LET other == AttributeDrivers(order, Len(order))
            IN  /\ other.fastest_speed = segment_fastest_speed
                /\ \A k \in 1 .. Len(segments) :
                       Cardinality(Fastest(k)) = 1 =>
                           other.fastest_driver[k] = segment_fastest_driver[k]

\* C12 witness: two segments; at the first the two drivers are level and
\* it goes to whoever is processed first, at the second the second driver
\* alone is fastest and has it in both orders
C12_Witness ==
    /\ pc = "driver" /\ AttributionDone
    /\ Len(segments) = 2
    /\ Fastest(1) = {1, 2}
    /\ Fastest(2) = {2}
    /\ NearestSpeed(1, 2) > 0
    /\ LET other == AttributeDrivers(<<all_drivers[2], all_drivers[1]>>, 2)
       IN  /\ segment_fastest_driver = <<all_drivers[1], all_drivers[2]>>
           /\ other.fastest_driver = <<all_drivers[2], all_drivers[2]>>
           /\ other.fastest_speed = segment_fastest_speed

\* the input of the worked example: the straight track in 2 segments,
\* driver A at 200 near (10,0) and at 0 near (30,0), driver B at 0 near
\* (10,0) and at 250 near (30,0)
WorkedExample ==
    /\ track_x = <<0, 10, 20, 30, 40>>
    /\ track_y = <<0, 0, 0, 0, 0>>
    /\ num_segments = 2
    /\ all_drivers = <<"A", "B">>
    /\ session["A"] =
           [empty |-> FALSE,
            tel |-> << [X |-> 10, Y |-> 0, Speed |-> 200],
                       [X |-> 30, Y |-> 0, Speed |-> 0] >>]
    /\ session["B"] =
           [empty |-> FALSE,
            tel |-> << [X |-> 10, Y |-> 0, Speed |-> 0],
                       [X |-> 30, Y |-> 0, Speed |-> 250] >>]

\* C13: on the worked example the segments are [(0,0),(10,0),(20,0)] and
\* [(20,0),(30,0),(40,0)] with midpoints (10,0) and (30,0), and once both
\* drivers are processed the first segment has A at 200 and the second B
\* at 250, which is what is exported.
C13_WorkedExample ==
    WorkedExample =>
        /\ SegmentationDone =>
               /\ segments = << << <<0, 0>>, <<10, 0>>, <<20, 0>> >>,
                                << <<20, 0>>, <<30, 0>>, <<40, 0>> >> >>
               /\ segment_points = << <<10, 0>>, <<30, 0>> >>
        /\ AttributionDone =>
               /\ segment_fastest_driver = <<"A", "B">>
               /\ segment_fastest_speed = <<200, 250>>
        /\ pc = "done" =>
               /\ Len(segment_data) = 2
               /\ segment_data[1].FastestDriver = "A"
               /\ segment_data[1].FastestSpeed = 200
               /\ segment_data[2].FastestDriver = "B"
               /\ segment_data[2].FastestSpeed = 250

\* C13 witness: the run on the worked example has ended
C13_Witness ==
    /\ WorkedExample
    /\ pc = "done"
    /\ Len(segments) = 2
    /\ segment_data[2].FastestDriver = "B"

(* ------------------------- f1_insights.utils --------------------------- *)

\* the call of function fn has returned
HasReturned(fn) == call.fn = fn /\ result.status = "returned"

\* C14: for a non-empty telemetry section and thresholds min_distance and
\* min_speed (50 and 300 by default), the two numbers analyze_slipstream
\* returns are the least DistanceToCarAhead and the greatest Speed of the
\* section, and the flag is true exactly when the first is < min_distance
\* and the second is > min_speed, both strictly.
C14_Slipstream ==
    HasReturned("analyze_slipstream") =>
        LET rows == call.telemetry.rows
            flag == result.value[1]
            min_dist == result.value[2]
            max_speed == result.value[3]
            min_distance == IF call.min_distance = <<>> THEN 50
                            ELSE call.min_distance[1]
            min_speed == IF call.min_speed = <<>> THEN 300
                         ELSE call.min_speed[1]
        IN  /\ Len(result.value) = 3
            /\ \E j \in 1 .. Len(rows) : rows[j].DistanceToCarAhead = min_dist
            /\ \A j \in 1 .. Len(rows) : rows[j].DistanceToCarAhead >= min_dist
            /\ \E j \in 1 .. Len(rows) : rows[j].Speed = max_speed
            /\ \A j \in 1 .. Len(rows) : rows[j].Speed <= max_speed
            /\ flag = (min_dist < min_distance /\ max_speed > min_speed)

\* C14 witness: with the default thresholds, a section whose least gap is
\* exactly 50 and whose top speed is 320, in different rows, is not a
\* slipstream
C14_Witness ==
    /\ HasReturned("analyze_slipstream")
    /\ call.min_distance = <<>> /\ call.min_speed = <<>>
    /\ Len(call.telemetry.rows) = 2
    /\ call.telemetry.rows[1].DistanceToCarAhead = 60
    /\ call.telemetry.rows[2].DistanceToCarAhead = 50
    /\ call.telemetry.rows[1].Speed = 320
    /\ call.telemetry.rows[2].Speed = 290
    /\ result.value = <<FALSE, 50, 320>>

\* the call has ended, by a return or by an exception
HasEnded(fn) == call.fn = fn /\ result /= Pending

\* the places in a corner table of the rows with the given Number
CornerRows(number) ==
    { j \in 1 .. Len(call.corners.rows) : call.corners.rows[j].Number = number }

\* the least element of a non-empty set of places
First(places) == CHOOSE j \in places : \A o \in places : j <= o

\* C15: when both corners are in the circuit's corner table, the function
\* returns exactly the rows of the telemetry with start_distance <=
\* Distance <= end_distance, both ends included, in their original order,
\* the two distances being those of the first row of each corner; the
\* result is empty when start_distance > end_distance.
C15_StraightSection ==
    (/\ HasEnded("get_straight_section_telemetry")
     /\ CornerRows(call.start_corner) /= {}
     /\ CornerRows(call.end_corner) /= {}) =>
        LET start_distance ==
                call.corners.rows[First(CornerRows(call.start_corner))].Distance
            end_distance ==
                call.corners.rows[First(CornerRows(call.end_corner))].Distance
            rows == call.telemetry.rows
            kept == { j \in 1 .. Len(rows) :
                        /\ start_distance <= rows[j].Distance
                        /\ rows[j].Distance <= end_distance }
            \* the place in the telemetry of the row at place m of the result
            place(m) == CHOOSE j \in kept :
                            Cardinality({ o \in kept : o <= j }) = m
        IN  /\ result.status = "returned"
            /\ Len(result.value.rows) = Cardinality(kept)
            /\ \A m \in 1 .. Cardinality(kept) :
                   result.value.rows[m] = rows[place(m)]
            /\ start_distance > end_distance => result.value.rows = <<>>

\* C15 witness: the corner table has Turn 13 twice, first at 300; the
\* section from Turn 13 to itself keeps the row at 300 and drops the row
\* at 100, the distance of the second Turn 13
C15_Witness ==
    /\ HasEnded("get_straight_section_telemetry")
    /\ call.start_corner = "Turn 13" /\ call.end_corner = "Turn 13"
    /\ Len(call.corners.rows) = 2
    /\ call.corners.rows[1] = [Number |-> "Turn 13", Distance |-> 300]
    /\ call.corners.rows[2] = [Number |-> "Turn 13", Distance |-> 100]
    /\ Len(call.telemetry.rows) = 2
    /\ call.telemetry.rows[1].Distance = 100
    /\ call.telemetry.rows[2].Distance = 300
    /\ result.value.rows = <<call.telemetry.rows[2]>>

\* a call of get_straight_section_telemetry leaves its arguments as they
\* were
SectionArgumentsKept ==
    call.fn = "get_straight_section_telemetry" => call' = call

\* a call with a corner that is not in the table returns a table without
\* rows
MissingCornerGivesEmpty ==
    (/\ HasEnded("get_straight_section_telemetry")
     /\ \/ CornerRows(call.start_corner) = {}
        \/ CornerRows(call.end_corner) = {}) =>
        /\ result.status = "returned"
        /\ result.value.rows = <<>>

\* C16: when the start corner or the end corner is not in the circuit's
\* corner table, the function returns an empty table and raises nothing,
\* whatever the telemetry, and the telemetry given is not changed.
C16_MissingCorner ==
    [][SectionArgumentsKept]_vars /\ []MissingCornerGivesEmpty

\* C16 witness: the start corner is in the table and the end corner is
\* not, the telemetry has rows at and after the start corner, and the
\* table returned has no row
C16_Witness ==
    /\ HasEnded("get_straight_section_telemetry")
    /\ CornerRows(call.start_corner) /= {}
    /\ CornerRows(call.end_corner) = {}
    /\ Len(call.telemetry.rows) = 2
    /\ call.telemetry.rows[1].Distance = 100
    /\ call.telemetry.rows[2].Distance = 300
    /\ call.corners.rows[1].Distance = 100
    /\ result = Returned(EmptyDataFrame)

\* the places in session.results of the rows of the driver asked for
DriverRows ==
    { j \in 1 .. Len(call.results.rows) :
        call.results.rows[j].Abbreviation = call.driver_code }

\* C17: for a driver code that is the Abbreviation of no row of
\* session.results, get_driver_info returns exactly name = the code,
\* number = 'N/A', team = 'Unknown', and raises nothing.
C17_UnknownDriver ==
    (HasEnded("get_driver_info") /\ DriverRows = {}) =>
        /\ result.status = "returned"
        /\ result.value =
               [name |-> call.driver_code, number |-> "N/A", team |-> "Unknown"]

\* C17 witness: XXX asked of a table that has HAM and MSC
C17_Witness ==
    /\ HasEnded("get_driver_info")
    /\ call.driver_code = "XXX"
    /\ Len(call.results.rows) = 2
    /\ call.results.rows[1].Abbreviation = "HAM"
    /\ call.results.rows[2].Abbreviation = "MSC"
    /\ result.value.name = "XXX"

\* a call of get_driver_info leaves session.results as it was
ResultsKept == call.fn = "get_driver_info" => call' = call

\* what is returned for a driver in the table is made of the first of its
\* rows
KnownDriverInfo ==
    (HasEnded("get_driver_info") /\ DriverRows /= {}) =>
        LET row == call.results.rows[First(DriverRows)]
        IN  /\ result.status = "returned"
            /\ DOMAIN result.value = {"name", "number", "team"}
            /\ result.value.name = row.FirstName \o " " \o row.LastName
            /\ result.value.number = row.DriverNumber
            /\ result.value.team = row.TeamName

\* C18: for a driver code that is in session.results, the result has
\* exactly the keys name, number and team, with name = FirstName, a space,
\* LastName, number = DriverNumber and team = TeamName of the first row
\* whose Abbreviation is the code; session.results is not changed.
C18_KnownDriver ==
    [][ResultsKept]_vars /\ []KnownDriverInfo

\* C18 witness: MSC has two rows, and the answer is made of the first
C18_Witness ==
    /\ HasEnded("get_driver_info")
    /\ call.driver_code = "MSC"
    /\ Len(call.results.rows) = 2
    /\ call.results.rows[1].FirstName = "Mick"
    /\ call.results.rows[2].FirstName = "Michael"
    /\ result.value =
           [name |-> "Mick Schumacher", number |-> "47",
            team |-> "Haas F1 Team"]

\* the places in session.laps of the laps of the driver asked for
OwnLaps ==
    { j \in 1 .. Len(call.laps.rows) : call.laps.rows[j].Driver = call.driver }

\* the laps the call selects: the driver's laps of the least LapTime when
\* lap_number is None, the driver's laps of that LapNumber otherwise
SelectedLaps ==
    IF call.lap_number = <<>>
    THEN { j \in OwnLaps :
             \A o \in OwnLaps :
                 call.laps.rows[j].LapTime <= call.laps.rows[o].LapTime }
    ELSE { j \in OwnLaps : call.laps.rows[j].LapNumber = call.lap_number[1] }

C20_AttributionInvariant ==
    pc \in {"driver", "speed", "render", "export", "done"} =>
        /\ Len(segment_fastest_driver) = Len(segments)
        /\ Len(segment_fastest_speed) = Len(segments)
        /\ \A k \in 1 .. Len(segments) :
               /\ (segment_fastest_driver[k] = None)
                      <=> (segment_fastest_speed[k] = 0)
               /\ segment_fastest_speed[k] >= 0

\* C20 witness: the second driver is between the two segments; the first
\* segment has a driver and a speed, the second has none, though the first
\* driver has data
C20_Witness ==
    /\ pc = "speed"
    /\ driver = 2
    /\ i = 1
    /\ Len(segments) = 2
    /\ 1 \in WithData
    /\ segment_fastest_driver[1] = all_drivers[2]
    /\ segment_fastest_speed[1] = 250
    /\ segment_fastest_driver[2] = None
    /\ segment_fastest_speed[2] = 0

\* C21: in every reachable state, every driver that appears in
\* segment_fastest_driver has an entry in driver_colors, so the lookup
\* driver_colors[driver] made for an attributed segment at rendering never
\* fails and every rendered colour of an attributed segment is the entry
\* of its driver, also when a driver raised partway through the loop over
\* the segments.
C21_ColourLookupSafety ==
    /\ \A k \in 1 .. Len(segment_fastest_driver) :
           segment_fastest_driver[k] /= None =>
               segment_fastest_driver[k] \in DOMAIN driver_colors
    /\ pc /= "crashed"
    /\ \A k \in 1 .. Len(colors) :
           segment_fastest_driver[k] /= None =>
               colors[k] = driver_colors[segment_fastest_driver[k]]

\* C21 witness: the first driver raised after it was given the first
\* segment, never reached the second, which nobody has, and the first
\* segment was rendered in the first driver's own colour
C21_Witness ==
    /\ pc = "render"
    /\ i = Len(segments)
    /\ Len(segments) = 2
    /\ raised = {all_drivers[1]}
    /\ segment_fastest_driver = <<all_drivers[1], None>>
    /\ colors = <<"orange", "gray">>

\* a step of the segmentation loop that makes a cut (the open segment
\* restarts from one point) stores a segment and its midpoint
CutStoresSegment ==
    (/\ pc = "segment"
     /\ i' = i + 1
     /\ Len(current_segment') = 1) =>
        /\ Len(segments') = Len(segments) + 1
        /\ Len(segment_points') = Len(segment_points) + 1
        /\ Len(segments'[Len(segments')]) >= 2

\* after the loop the open segment is the final track point alone, the
\* last point of the last retained segment, and every track point is in
\* a retained segment
OnlyBoundaryLeft ==
    (pc = "segment" /\ SegmentationDone /\ Len(track_x) >= 2) =>
        /\ current_segment = <<Polyline[Len(track_x)]>>
        /\ Len(segments) >= 1
        /\ LET last == segments[Len(segments)]
           IN  last[Len(last)] = Polyline[Len(track_x)]
        /\ Len(Joined(segments)) = Len(track_x)
        /\ \A a \in 1 .. Len(track_x) : Joined(segments)[a] = Polyline[a]

\* C22: for a track of at least 2 points and any target count, the guard
\* "the segment has at least 2 points" is true at every cut of the
\* segmentation loop, so every cut stores a segment; after the loop only
\* the final track point is left open, it is the last point of the last
\* retained segment, and no track point is missing from the segments.
C22_TrailingRemainder ==
    [][CutStoresSegment]_vars /\ []OnlyBoundaryLeft

\* C22 witness: a track of 4 points cut after its third point; the final
\* point closed a trailing segment of 2 points, which was retained, and
\* is alone in the open segment
C22_Witness ==
    /\ pc = "segment" /\ SegmentationDone
    /\ Len(track_x) = 4
    /\ Len(segments) = 2
    /\ Len(segments[1]) = 3
    /\ segments[2] = <<Polyline[3], Polyline[4]>>
    /\ Polyline[3] /= Polyline[4]
    /\ current_segment = <<Polyline[4]>>

\* a step taken while the drivers are processed lowers no segment's
\* fastest_speed, changes a segment's fastest_driver only together with a
\* strict increase of its fastest_speed, and returns no segment to none
MonotoneStep ==
    pc \in {"driver", "speed"} =>
        /\ Len(segment_fastest_speed') = Len(segment_fastest_speed)
        /\ Len(segment_fastest_driver') = Len(segment_fastest_driver)
        /\ \A k \in 1 .. Len(segment_fastest_speed) :
               /\ segment_fastest_speed'[k] >= segment_fastest_speed[k]
               /\ segment_fastest_driver'[k] /= segment_fastest_driver[k] =>
                      segment_fastest_speed'[k] > segment_fastest_speed[k]
               /\ segment_fastest_driver[k] /= None =>
                      segment_fastest_driver'[k] /= None

\* C23: while the drivers are processed one after another, the
\* fastest_speed of a segment never decreases, its fastest_driver changes
\* only in a step in which its fastest_speed strictly increases, and a
\* segment that has a driver never returns to none.
C23_MonotoneAttribution == [][MonotoneStep]_vars

\* C23 witness: both drivers are processed; the second took the first
\* segment from the first driver with a higher speed, and was slower at
\* the second segment, which stayed with the first driver
C23_Witness ==
    /\ pc = "driver" /\ AttributionDone
    /\ WithData = {1, 2}
    /\ Len(segments) = 2
    /\ NearestSpeed(1, 1) = 200
    /\ NearestSpeed(2, 1) = 250
    /\ NearestSpeed(1, 2) = 250
    /\ NearestSpeed(2, 2) = 200
    /\ segment_fastest_driver = <<all_drivers[2], all_drivers[1]>>
    /\ segment_fastest_speed = <<250, 250>>

====
